---- MODULE Spec2Model ----
(***************************************************************************)
(* Model of quiz_app.py: a Streamlit quiz.  One action is one run of the   *)
(* script (one request cycle): the module-level load of questions.xlsx     *)
(* (line 58) followed by main().  The two spreadsheet files and the        *)
(* session state persist between cycles.                                   *)
(*                                                                         *)
(* Abstractions: a question keeps its id and correct_answer; every         *)
(* question offers the same four options (Options); the question text is   *)
(* left out, and a ledger row keeps its Rank, Name and Total Marks.        *)
(* An optional value (Python None, a NaN cell, an absent query parameter)  *)
(* is <<>>, a present value v is <<v>>.                                    *)
(***************************************************************************)
EXTENDS Integers, Sequences, FiniteSets, TLC

\* ---------------------------------------------------------------- bounds
MaxRows == 2        \* questions of a store of the scoring model
MaxId == 2          \* largest question id of the scoring model
MaxSaveCalls == 2   \* calls of save_results_to_excel explored
MaxSubmits == 2     \* submit transitions explored

\* ------------------------------------------------------------- constants
None == <<>>
Some(v) == <<v>>

ADMIN_TOKEN == "prepzoneauthuser$"
Tokens == {None, Some(ADMIN_TOKEN), Some("prepzoneauthuser")}

RequiredColumns ==
  {"id", "question", "option1", "option2", "option3", "option4", "correct_answer"}

\* option1..option4 of every question: texts that differ only by case or
\* by whitespace are different options.
Options == <<"A", "a", "A ", "B">>
OptionSet == {Options[i] : i \in 1..Len(Options)}
\* The names typed into the name field (user_name starts empty).
Names == {"ann"}

\* The value of an id cell: a number, or text int() cannot parse.
NumCell(i) == [num |-> TRUE, n |-> i]
TextCell == [num |-> FALSE, n |-> 0]
Row(i, c) == [id |-> NumCell(i), correct_answer |-> c]
MalformedRow == [id |-> TextCell, correct_answer |-> "A"]
Table(rows) == [cols |-> RequiredColumns, rows |-> rows]

\* The question tables of the session model: an empty table, ids 1..N, a
\* gap in the ids, a repeated id, a malformed id; tables of one row that
\* lack one or two of the required columns.
Tables ==
  {Table(<<>>), Table(<<Row(1, "A")>>), Table(<<Row(1, "A"), Row(2, "B")>>),
   Table(<<Row(2, "B")>>), Table(<<Row(1, "A"), Row(1, "B")>>),
   Table(<<Row(1, "A"), MalformedRow>>)}
  \cup {[cols |-> RequiredColumns \ lacking, rows |-> <<Row(1, "A")>>] :
          lacking \in {{"id"}, {"correct_answer"}, {"question", "option3"}}}

\* The inputs of the scoring model: every question list of at most MaxRows
\* questions with ids in 1..MaxId, every answer map with keys in 1..MaxId + 1.
QuestionLists ==
  UNION {[1..k -> [id : 1..MaxId, correct_answer : {"A", "B"}]] : k \in 0..MaxRows}
AnswerMaps ==
  UNION {[keys -> {None} \cup {Some(o) : o \in OptionSet}] : keys \in SUBSET (1..(MaxId + 1))}

Absent == [cols |-> {}, rows |-> <<>>, exists |-> FALSE]
File(t) == [cols |-> t.cols, rows |-> t.rows, exists |-> TRUE]

VARIABLES
  questions_xlsx,  \* the question file on disk
  results_xlsx,    \* the ledger file on disk
  QUESTIONS,       \* the module global
  quiz_started, answers, submitted, user_name, is_admin,  \* st.session_state
  history,         \* the admin_token values of the URLs in the session's browser history
  req,             \* what main last read: query token, button clicked, uploaded file
  status,          \* how the last cycle ended
  shown,           \* what the last cycle rendered
  scoring,         \* the evaluation of calculate_score and calculate_stats (scoring model)
  submits,         \* submit transitions so far
  saveCalls        \* calls of save_results_to_excel so far

session == <<quiz_started, answers, submitted, user_name, is_admin>>
counters == <<submits, saveCalls>>
files == <<questions_xlsx, results_xlsx>>
vars == <<questions_xlsx, results_xlsx, QUESTIONS, quiz_started, answers, submitted,
          user_name, is_admin, history, req, status, shown, scoring, submits,
          saveCalls>>

\* ------------------------------------------------------- Question Store
\* int(row["id"]) and the str() of the text cells of one row.
QuestionOf(row) == [id |-> row.id.n, correct_answer |-> row.correct_answer]

\* What reading one row raises: row["id"] is looked up first, then int() is
\* applied to it, then the other columns are looked up.
RowRaises(cols, row) ==
  IF "id" \notin cols THEN "KeyError"
  ELSE IF ~row.id.num THEN "ValueError"
  ELSE IF ~(RequiredColumns \subseteq cols) THEN "KeyError"
  ELSE ""

FirstBadRow(f) ==
  IF \E i \in 1..Len(f.rows) : RowRaises(f.cols, f.rows[i]) # ""
  THEN CHOOSE i \in 1..Len(f.rows) :
         /\ RowRaises(f.cols, f.rows[i]) # ""
         /\ \A j \in 1..(i - 1) : RowRaises(f.cols, f.rows[j]) = ""
  ELSE 0

\* load_questions_from_excel: `raised` names the exception that escapes (""
\* when none does), `error` tells whether st.error reported a failure.
load_questions_from_excel(f) ==
  IF ~f.exists
  THEN [raised |-> "", error |-> TRUE, questions |-> <<>>]
  ELSE IF FirstBadRow(f) # 0
  THEN [raised |-> RowRaises(f.cols, f.rows[FirstBadRow(f)]), error |-> FALSE,
        questions |-> <<>>]
  ELSE [raised |-> "", error |-> FALSE,
        questions |-> [i \in 1..Len(f.rows) |-> QuestionOf(f.rows[i])]]

\* ------------------------------------------------------- Scoring Engine
\* next((q for q in QUESTIONS if q["id"] == question_id), None)
FindQuestion(Q, question_id) ==
  IF \E i \in 1..Len(Q) : Q[i].id = question_id
  THEN Some(Q[CHOOSE i \in 1..Len(Q) :
                /\ Q[i].id = question_id
                /\ \A j \in 1..(i - 1) : Q[j].id # question_id])
  ELSE None

\* Faulty variant: the comparison ignores case and surrounding whitespace.
Normalized(text) == IF text \in {"a", "A "} THEN "A" ELSE text
IsCorrect_Normalized(Q, question_id, answer) ==
  LET question == FindQuestion(Q, question_id)
  IN  /\ question # None
      /\ answer # None
      /\ Normalized(answer[1]) = Normalized(question[1].correct_answer)

\* `question and answer == question["correct_answer"]`
IsCorrect(Q, question_id, answer) ==
  LET question == FindQuestion(Q, question_id)
  IN  question # None /\ answer = Some(question[1].correct_answer)

\* answers.get(question_id)
Get(ans, question_id) ==
  IF question_id \in DOMAIN ans THEN ans[question_id] ELSE None

RECURSIVE ScoreLoop(_, _, _)
ScoreLoop(Q, ans, keys) ==
  IF keys = {} THEN 0
  ELSE LET k == CHOOSE x \in keys : TRUE
       IN  (IF IsCorrect(Q, k, ans[k]) THEN 1 ELSE 0) + ScoreLoop(Q, ans, keys \ {k})

calculate_score(Q, ans) ==
  [correct |-> ScoreLoop(Q, ans, DOMAIN ans), total |-> Len(Q)]

\* The loop over range(1, total + 1): <<correct, unattempted>> after it.
RECURSIVE StatsLoop(_, _, _)
StatsLoop(Q, ans, n) ==
  IF n = 0 THEN <<0, 0>>
  ELSE LET before == StatsLoop(Q, ans, n - 1)
           answer == Get(ans, n)
       IN  IF answer = None THEN <<before[1], before[2] + 1>>
           ELSE IF IsCorrect(Q, n, answer) THEN <<before[1] + 1, before[2]>>
           ELSE before

\* Faulty variant: the unattempted questions are not subtracted.
WrongOf_NotCorrect(total, correct, unattempted) == total - correct

\* wrong = total - correct - unattempted
WrongOf(total, correct, unattempted) == total - correct - unattempted

calculate_stats(Q, ans, total) ==
  LET counts == StatsLoop(Q, ans, total)
  IN  [correct |-> counts[1],
       wrong |-> WrongOf(total, counts[1], counts[2]),
       unattempted |-> counts[2]]

\* display_results, lines 267-268: the score, and the statistics for the
\* score's total, kept with the store and the answer map they were computed from.
Evaluate(Q, ans) ==
  LET score == calculate_score(Q, ans)
  IN  [done |-> TRUE, questions |-> Q, answers |-> ans, score |-> score,
       stats |-> calculate_stats(Q, ans, score.total)]

NoScoring ==
  [done |-> FALSE, questions |-> <<>>, answers |-> <<>>,
   score |-> [correct |-> 0, total |-> 0],
   stats |-> [correct |-> 0, wrong |-> 0, unattempted |-> 0]]

\* -------------------------------------------------------- Result Ledger
\* A data frame is its column names and its rows; a Rank cell is Some(n),
\* or None (NaN) in a row that was concatenated without one.
NewResult(Q, name, ans) ==
  LET s == calculate_stats(Q, ans, Len(Q))
  IN  [Name |-> name, TotalMarks |-> s.correct]

ResultColumns == {"Name", "Total Marks"}

WithRank(row, rank) == [Rank |-> rank, Name |-> row.Name, TotalMarks |-> row.TotalMarks]

\* pd.concat([df, pd.DataFrame([new_result])], ignore_index=True)
Concat(df, new) ==
  [cols |-> df.cols \cup ResultColumns,
   rows |-> Append(df.rows, IF "Rank" \in df.cols THEN WithRank(new, None) ELSE new)]

\* df.sort_values("Total Marks", ascending=False).reset_index(drop=True):
\* insertion of the rows, one by one, behind the rows with at least their marks.
\* (pandas leaves the order of rows with equal marks open; a sorted frame of
\* two or more rows is never written, see InsertRaises.)
RECURSIVE SortValues(_)
InsertRow(sorted, row) ==
  LET ahead == Cardinality({i \in 1..Len(sorted) : sorted[i].TotalMarks >= row.TotalMarks})
  IN  SubSeq(sorted, 1, ahead) \o <<row>> \o SubSeq(sorted, ahead + 1, Len(sorted))
SortValues(rows) ==
  IF rows = <<>> THEN <<>>
  ELSE InsertRow(SortValues(SubSeq(rows, 1, Len(rows) - 1)), rows[Len(rows)])

\* df.insert(0, "Rank", range(1, len(df) + 1)) raises ValueError when the
\* frame already has a Rank column.
InsertRaises(df) == "Rank" \in df.cols
InsertRank(df) ==
  [cols |-> df.cols \cup {"Rank"},
   rows |-> [i \in 1..Len(df.rows) |-> WithRank(df.rows[i], Some(i))]]

\* save_results_to_excel: the exception that escapes and the ledger file after.
save_results_to_excel(Q, ledger, name, ans) ==
  LET new == NewResult(Q, name, ans)
      df == IF ledger.exists
            THEN Concat(ledger, new)
            ELSE [cols |-> ResultColumns, rows |-> <<new>>]
      sorted == [cols |-> df.cols, rows |-> SortValues(df.rows)]
  IN  IF InsertRaises(sorted)
      THEN [raised |-> "ValueError", file |-> ledger]
      ELSE [raised |-> "", file |-> File(InsertRank(sorted))]

\* ----------------------------------------------------------- Admin Gate
\* Faulty variant: a prefix of the secret is accepted.
verify_token_Prefix(token) == token \in {ADMIN_TOKEN, "prepzoneauthuser"}

verify_token(token) == token = ADMIN_TOKEN

\* ------------------------------------------------------ request cycles
Clicks == {"none", "logout", "submit", "retake"}

\* The admin_token of the URL a cycle runs with is one of `history`: the URL
\* the session was opened with, or the URL after st.query_params.clear(),
\* which the browser's back and forward buttons switch between.

\* A button returns True only in the cycle its click triggers, and it can be
\* clicked only when the previous cycle rendered it.
Clickable(click) ==
  CASE click = "logout" -> "logout_button" \in shown
    [] click = "submit" -> "submit_button" \in shown
    [] click = "retake" -> "retake_button" \in shown
    [] OTHER -> TRUE

\* The file held by st.file_uploader: none, an unreadable file, or a table.
Unreadable == [cols |-> {}, rows |-> <<>>, readable |-> FALSE]
Upload(t) == [cols |-> t.cols, rows |-> t.rows, readable |-> TRUE]
Uploads ==
  IF "admin_panel" \in shown
  THEN {None, Some(Unreadable)} \cup {Some(Upload(t)) : t \in Tables}
  ELSE {None}

\* The value of st.text_input: what the user typed into the rendered widget.
NameInputs == IF "quiz_form" \in shown THEN Names ELSE {user_name}

\* The value of each st.radio: None (index=None) unless the user selected
\* an option in the rendered widget.
RadioValues == IF "quiz_form" \in shown THEN {None} \cup {Some(o) : o \in OptionSet} ELSE {None}

\* initialize_session_state on a new session.
initialize_session_state ==
  /\ quiz_started = FALSE
  /\ answers = <<>>
  /\ submitted = FALSE
  /\ user_name = ""
  /\ is_admin = FALSE

\* A page load: a new session, opened with a URL of any admin_token.
NewSession(token) ==
  /\ status # "init"
  /\ quiz_started' = FALSE
  /\ answers' = <<>>
  /\ submitted' = FALSE
  /\ user_name' = ""
  /\ is_admin' = FALSE
  /\ history' = {token}
  /\ req' = [token |-> None, click |-> "none", upload |-> None]
  /\ status' = "init"
  /\ shown' = {}
  /\ QUESTIONS' = <<>>
  /\ UNCHANGED <<files, scoring, counters>>

Init ==
  /\ questions_xlsx \in {Absent} \cup {File(t) : t \in Tables}
  /\ results_xlsx = Absent
  /\ QUESTIONS = <<>>
  /\ initialize_session_state
  /\ history \in {{token} : token \in Tokens}
  /\ req = [token |-> None, click |-> "none", upload |-> None]
  /\ scoring = NoScoring
  /\ status = "init"
  /\ shown = {}
  /\ submits = 0
  /\ saveCalls = 0

\* Line 58: QUESTIONS = load_questions_from_excel(EXCEL_FILE), run by every cycle.
Loaded == load_questions_from_excel(questions_xlsx)
LoadShown == IF Loaded.error THEN {"err_excel_not_found"} ELSE {}

\* The load at line 58 raises: the script stops before main.
ScriptLoadFails ==
  /\ Loaded.raised # ""
  /\ status' = "load_exception"
  /\ shown' = {}
  /\ UNCHANGED <<files, QUESTIONS, session, history, req, scoring, counters>>

\* main, lines 335-341: a token in the URL that verify_token rejects.
MainInvalidToken(token, click) ==
  /\ Clickable(click)
  /\ Loaded.raised = ""
  /\ token # None /\ ~verify_token(token[1])
  /\ QUESTIONS' = Loaded.questions
  /\ req' = [token |-> token, click |-> click, upload |-> None]
  /\ status' = "return"
  /\ shown' = LoadShown \cup {"err_invalid_token"}
  /\ UNCHANGED <<files, session, history, scoring, counters>>

\* is_admin after lines 335-341, when main goes on.
GatePasses(token) == IF token = None THEN TRUE ELSE verify_token(token[1])
AdminAfterGate(token) == IF token # None THEN TRUE ELSE is_admin

\* main, lines 344-349: admin mode and the Logout button was clicked.
MainAdminLogout(token, click) ==
  /\ Clickable(click)
  /\ Loaded.raised = ""
  /\ GatePasses(token) /\ AdminAfterGate(token)
  /\ click = "logout"
  /\ QUESTIONS' = Loaded.questions
  /\ is_admin' = FALSE
  /\ history' = history \cup {None}
  /\ req' = [token |-> token, click |-> click, upload |-> None]
  /\ status' = "rerun"
  /\ shown' = LoadShown \cup {"admin_sidebar", "logout_button"}
  /\ UNCHANGED <<files, quiz_started, answers, submitted, user_name, scoring, counters>>

\* display_admin_panel, lines 189-209: what the upload does.  `file` is the
\* question file after, `questions` the global after, `msg` the message shown.
\* Faulty variant: any() in place of all().
ColumnsValid_Any(df) == \E col \in RequiredColumns : col \in df.cols

\* all(col in df.columns for col in required_columns)
ColumnsValid(df) == \A col \in RequiredColumns : col \in df.cols
display_admin_panel(Q, uploaded_file) ==
  IF uploaded_file = None
  THEN [file |-> questions_xlsx, questions |-> Q, msg |-> {}, rerun |-> FALSE]
  ELSE IF ~uploaded_file[1].readable
  THEN [file |-> questions_xlsx, questions |-> Q, msg |-> {"upload_err_exception"},
        rerun |-> FALSE]
  ELSE IF ~ColumnsValid(uploaded_file[1])
  THEN [file |-> questions_xlsx, questions |-> Q, msg |-> {"upload_err_columns"},
        rerun |-> FALSE]
  ELSE LET written == File(uploaded_file[1])
           reloaded == load_questions_from_excel(written)
       IN  IF reloaded.raised # ""
           THEN [file |-> written, questions |-> Q,
                 msg |-> {"upload_success", "upload_err_exception"}, rerun |-> FALSE]
           ELSE [file |-> written, questions |-> reloaded.questions,
                 msg |-> {"upload_success"}, rerun |-> TRUE]

\* main, lines 344-351: admin mode, the panel is rendered.
MainAdminPanel(token, click, uploaded_file) ==
  /\ Clickable(click)
  /\ Loaded.raised = ""
  /\ GatePasses(token) /\ AdminAfterGate(token)
  /\ click # "logout"
  /\ LET panel == display_admin_panel(Loaded.questions, uploaded_file)
     IN  /\ questions_xlsx' = panel.file
         /\ QUESTIONS' = panel.questions
         /\ status' = IF panel.rerun THEN "rerun" ELSE "ok"
         /\ shown' = LoadShown \cup {"admin_sidebar", "logout_button", "admin_panel"}
                       \cup panel.msg
  /\ is_admin' = TRUE
  /\ req' = [token |-> token, click |-> click, upload |-> uploaded_file]
  /\ UNCHANGED <<results_xlsx, quiz_started, answers, submitted, user_name, history,
                 scoring, counters>>

\* Faulty variant: the ranklist is read only when questions are loaded.
display_ranklist_NeedsQuestions ==
  IF results_xlsx.exists /\ Loaded.questions # <<>> THEN {"ranklist"} ELSE {"ranklist_info"}

\* display_ranklist
display_ranklist == IF results_xlsx.exists THEN {"ranklist"} ELSE {"ranklist_info"}

\* main, lines 352-359: the regular interface with no question loaded.
MainNoQuestions(token, click) ==
  /\ Clickable(click)
  /\ Loaded.raised = ""
  /\ GatePasses(token) /\ ~AdminAfterGate(token)
  /\ Loaded.questions = <<>>
  /\ QUESTIONS' = Loaded.questions
  /\ req' = [token |-> token, click |-> click, upload |-> None]
  /\ status' = "ok"
  /\ shown' = LoadShown \cup display_ranklist \cup {"err_no_questions"}
  /\ UNCHANGED <<files, session, history, scoring, counters>>

\* display_quiz renders the questions in order; a second st.radio with the
\* key of an earlier one raises DuplicateWidgetID.  Rendered(Q) is the number
\* of questions rendered before that.
Rendered(Q) ==
  IF \E i \in 1..Len(Q) : \E j \in 1..(i - 1) : Q[j].id = Q[i].id
  THEN (CHOOSE i \in 1..Len(Q) :
          /\ \E j \in 1..(i - 1) : Q[j].id = Q[i].id
          /\ \A k \in 1..(i - 1) : \A j \in 1..(k - 1) : Q[j].id # Q[k].id) - 1
  ELSE Len(Q)

RenderedIds(Q) == {Q[i].id : i \in 1..Rendered(Q)}

\* st.session_state.answers[question["id"]] = selected_answer, for each
\* rendered question.
StoreAnswers(ans, ids, selected) ==
  [k \in DOMAIN ans \cup ids |-> IF k \in ids THEN selected[k] ELSE ans[k]]

\* main, line 362: display_quiz.
MainQuiz(token, click, name, selected) ==
  /\ Clickable(click)
  /\ Loaded.raised = ""
  /\ GatePasses(token) /\ ~AdminAfterGate(token)
  /\ Loaded.questions # <<>>
  /\ ~submitted
  /\ click = "submit" => submits < MaxSubmits
  /\ QUESTIONS' = Loaded.questions
  /\ user_name' = name
  /\ answers' = StoreAnswers(answers, RenderedIds(Loaded.questions), selected)
  /\ IF Rendered(Loaded.questions) < Len(Loaded.questions)
     THEN /\ status' = "exception"
          /\ shown' = LoadShown \cup display_ranklist \cup {"quiz_form"}
          /\ UNCHANGED <<submitted, submits>>
     ELSE /\ status' = "ok"
          /\ shown' = LoadShown \cup display_ranklist \cup {"quiz_form", "submit_button"}
          /\ submitted' = (click = "submit")
          /\ submits' = IF click = "submit" THEN submits + 1 ELSE submits
  /\ req' = [token |-> token, click |-> click, upload |-> None]
  /\ UNCHANGED <<files, quiz_started, is_admin, history, scoring, saveCalls>>

\* main, line 364: display_results.
MainResults(token, click) ==
  /\ Clickable(click)
  /\ Loaded.raised = ""
  /\ GatePasses(token) /\ ~AdminAfterGate(token)
  /\ Loaded.questions # <<>>
  /\ submitted
  /\ saveCalls < MaxSaveCalls
  /\ QUESTIONS' = Loaded.questions
  /\ saveCalls' = saveCalls + 1
  /\ LET saved == save_results_to_excel(Loaded.questions, results_xlsx, user_name, answers)
     IN  /\ results_xlsx' = saved.file
         /\ IF saved.raised # ""
            THEN /\ status' = "exception"
                 /\ shown' = LoadShown \cup display_ranklist \cup {"results_title"}
                 /\ UNCHANGED <<answers, submitted>>
            ELSE /\ shown' = LoadShown \cup display_ranklist
                               \cup {"results_title", "results", "retake_button"}
                 /\ IF click = "retake"
                    THEN /\ answers' = <<>>
                         /\ submitted' = FALSE
                         /\ status' = "rerun"
                    ELSE /\ status' = "ok"
                         /\ UNCHANGED <<answers, submitted>>
  /\ req' = [token |-> token, click |-> click, upload |-> None]
  /\ UNCHANGED <<questions_xlsx, quiz_started, user_name, is_admin, history, scoring,
                 submits>>

Next ==
  \/ \E token \in Tokens : NewSession(token)
  \/ ScriptLoadFails
  \/ \E token \in history, click \in Clicks  :
       MainInvalidToken(token, click)
  \/ \E token \in history, click \in Clicks  :
       MainAdminLogout(token, click)
  \/ \E token \in history, click \in Clicks, uploaded_file \in Uploads  :
       MainAdminPanel(token, click, uploaded_file)
  \/ \E token \in history, click \in Clicks  :
       MainNoQuestions(token, click)
  \/ \E token \in history, click \in Clicks, name \in NameInputs :
       \E selected \in [RenderedIds(Loaded.questions) -> RadioValues] :
         MainQuiz(token, click, name, selected)
  \/ \E token \in history, click \in Clicks  :
       MainResults(token, click)

Spec == Init /\ [][Next]_vars

\* ------------------------------------------------------- scoring model
\* The scoring functions applied to every bounded store and answer map.
InitScoring ==
  /\ questions_xlsx = Absent
  /\ results_xlsx = Absent
  /\ QUESTIONS \in QuestionLists
  /\ answers \in AnswerMaps
  /\ quiz_started = FALSE /\ submitted = TRUE /\ user_name = "" /\ is_admin = FALSE
  /\ history = {None}
  /\ req = [token |-> None, click |-> "none", upload |-> None]
  /\ scoring = NoScoring
  /\ status = "init"
  /\ shown = {}
  /\ submits = 0
  /\ saveCalls = 0

ScoreAnswers ==
  /\ ~scoring.done
  /\ scoring' = Evaluate(QUESTIONS, answers)
  /\ UNCHANGED <<files, QUESTIONS, session, history, req, status, shown, counters>>

SpecScoring == InitScoring /\ [][ScoreAnswers]_vars

\* ---------------------------------------------------------------- claims
\* The last cycle got as far as main.
MainRan == status \in {"ok", "return", "rerun", "exception"}

LedgerRows == results_xlsx.rows

\* C1: after the k-th call of save_results_to_excel the ledger holds exactly
\* k rows, ranked 1..k in row order, with non-increasing Total Marks.
C1_LedgerAfterAppends ==
  saveCalls > 0 =>
    /\ results_xlsx.exists
    /\ Len(LedgerRows) = saveCalls
    /\ \A i \in 1..Len(LedgerRows) : LedgerRows[i].Rank = Some(i)
    /\ \A i \in 1..(Len(LedgerRows) - 1) :
         LedgerRows[i].TotalMarks >= LedgerRows[i + 1].TotalMarks

\* The cycle that ends in the primed state rendered the admin panel with an
\* uploaded table that lacks a required column.
LacksColumn(upload) ==
  /\ upload # None
  /\ upload[1].readable
  /\ \E c \in RequiredColumns : c \notin upload[1].cols

\* C2: an admin upload of a table that lacks a required column leaves
\* QUESTIONS and the question file unchanged and shows the validation error;
\* the question file is replaced only by an upload that has every required
\* column.
C2_UploadValidation ==
  [][/\ ("admin_panel" \in shown' /\ LacksColumn(req'.upload)) =>
          /\ QUESTIONS' = QUESTIONS
          /\ questions_xlsx' = questions_xlsx
          /\ "upload_err_columns" \in shown'
          /\ "upload_success" \notin shown'
     /\ questions_xlsx' # questions_xlsx =>
          /\ "admin_panel" \in shown'
          /\ req'.upload # None
          /\ req'.upload[1].readable
          /\ RequiredColumns \subseteq req'.upload[1].cols]_vars

C2_Witness ==
  /\ "admin_panel" \in shown
  /\ LacksColumn(req.upload)
  /\ "upload_err_columns" \in shown
  /\ QUESTIONS # <<>>

C4_SubmitThenRetake ==
  [][MainRan' =>
       /\ (submitted /\ ~submitted') => req'.click = "retake"
       /\ (submitted /\ req'.click = "retake" /\ "results_title" \in shown') =>
            /\ answers' = <<>>
            /\ ~submitted'
            /\ user_name' = user_name]_vars

\* The ids of the store are exactly 1..N.
DenseIds(Q) ==
  /\ \A i \in 1..Len(Q) : Q[i].id \in 1..Len(Q)
  /\ \A i, j \in 1..Len(Q) : Q[i].id = Q[j].id => i = j

\* C5: for a store of N questions with ids exactly 1..N and any answer map,
\* calculate_stats(answers, N) returns correct + wrong + unattempted = N.
C5_StatsSum ==
  (scoring.done /\ DenseIds(scoring.questions)) =>
    scoring.stats.correct + scoring.stats.wrong + scoring.stats.unattempted
      = Len(scoring.questions)

C5_Witness ==
  /\ scoring.done
  /\ DenseIds(scoring.questions)
  /\ Len(scoring.questions) = 2
  /\ \E k \in DOMAIN scoring.answers : k > 2
  /\ \E k \in DOMAIN scoring.answers : scoring.answers[k] = None
  /\ scoring.stats.wrong = 1

\* The entries of the answer map that name a question of the store (the
\* first with that id) and carry exactly its correct_answer.
ExactMatches(Q, ans) ==
  {k \in DOMAIN ans :
     \E i \in 1..Len(Q) :
       /\ Q[i].id = k
       /\ \A j \in 1..(i - 1) : Q[j].id # k
       /\ ans[k] = Some(Q[i].correct_answer)}

\* C6: calculate_score counts 1 for each entry whose id names a question of
\* the store and whose text is exactly that question's correct_answer, 0 for
\* every other entry (a text that differs by case or whitespace, an id that
\* is not in the store), and returns the size of the store as the total.
C6_ExactScore ==
  scoring.done =>
    /\ scoring.score.correct = Cardinality(ExactMatches(scoring.questions, scoring.answers))
    /\ scoring.score.total = Len(scoring.questions)

C6_Witness ==
  /\ scoring.done
  /\ scoring.score.correct = 1
  /\ \E k \in DOMAIN scoring.answers :
       /\ scoring.answers[k] \in {Some("a"), Some("A ")}
       /\ \E i \in 1..Len(scoring.questions) :
            scoring.questions[i].id = k /\ scoring.questions[i].correct_answer = "A"
  /\ \E k \in DOMAIN scoring.answers :
       /\ scoring.answers[k] # None
       /\ \A i \in 1..Len(scoring.questions) : scoring.questions[i].id # k

\* C7: the Answer Map never has more keys than the Question Store has
\* questions.
C7_AnswersWithinStore == Cardinality(DOMAIN answers) <= Len(QUESTIONS)

\* C8: a load of an absent question file, or of a table that lacks a required
\* column, ends in a reported failure and not in an uncaught exception.
C8_LoadReportsFailure ==
  (/\ status # "init"
   /\ \/ ~questions_xlsx.exists
      \/ ~(RequiredColumns \subseteq questions_xlsx.cols)) =>
    /\ status # "load_exception"
    /\ "err_excel_not_found" \in shown

\* C9: a cycle that reaches the regular interface (no token, is_admin false)
\* with an empty store renders neither the quiz form nor the results view,
\* scores nothing and appends nothing, and displays the ranklist when the
\* ledger file exists.
C9_EmptyStoreBlocksQuiz ==
  [][(/\ MainRan'
      /\ req'.token = None
      /\ ~is_admin
      /\ QUESTIONS' = <<>>) =>
       /\ "err_no_questions" \in shown'
       /\ "quiz_form" \notin shown'
       /\ "results_title" \notin shown'
       /\ saveCalls' = saveCalls
       /\ results_xlsx' = results_xlsx
       /\ <<answers', submitted'>> = <<answers, submitted>>
       /\ results_xlsx.exists => "ranklist" \in shown']_vars

C9_Witness ==
  /\ MainRan
  /\ "err_no_questions" \in shown
  /\ QUESTIONS = <<>>
  /\ submitted
  /\ answers # <<>>
  /\ results_xlsx.exists
  /\ "ranklist" \in shown

\* C10: once the results view has been rendered, the number of ledger appends
\* equals the number of submit transitions, however often it is rendered.
C10_OneAppendPerSubmit ==
  "results_title" \in shown =>
    /\ saveCalls = submits
    /\ Len(LedgerRows) = submits

====
